---- MODULE Spec2Model ----
(***************************************************************************)
(* The PES scoring and advisory engine (pes_utils.py, app.py) and its      *)
(* three callers: the Streamlit manual form, the retrieval pipeline        *)
(* rag_query_pipeline and the FastAPI endpoints of api.py.                 *)
(*                                                                         *)
(* Python floats are modelled as exact rationals (sign, numerator,         *)
(* denominator).  The denominators the engine produces exceed 32 bits, so  *)
(* numerators and denominators are arbitrary-precision naturals held as    *)
(* little-endian sequences of base-10000 limbs.  Rounding of IEEE doubles  *)
(* is not modelled.                                                        *)
(***************************************************************************)
EXTENDS Integers, Sequences, FiniteSets

\* ------------------------------------------------------------------------
\* Arbitrary-precision naturals: <<>> is 0, no most-significant zero limb.
\* ------------------------------------------------------------------------
Base == 10000

RECURSIVE BigOf(_)
BigOf(n) == IF n = 0 THEN <<>> ELSE <<n % Base>> \o BigOf(n \div Base)

RECURSIVE BigTrim(_)
BigTrim(a) ==
    IF a = <<>> THEN <<>>
    ELSE IF a[Len(a)] = 0 THEN BigTrim(SubSeq(a, 1, Len(a) - 1))
    ELSE a

RECURSIVE BigAddC(_, _, _)
BigAddC(a, b, c) ==
    IF a = <<>> /\ b = <<>> THEN (IF c = 0 THEN <<>> ELSE <<c>>)
    ELSE LET x == IF a = <<>> THEN 0 ELSE Head(a)
             y == IF b = <<>> THEN 0 ELSE Head(b)
             t == x + y + c
         IN  <<t % Base>> \o BigAddC(IF a = <<>> THEN <<>> ELSE Tail(a),
                                      IF b = <<>> THEN <<>> ELSE Tail(b),
                                      t \div Base)

BigAdd(a, b) == BigAddC(a, b, 0)

RECURSIVE BigSubC(_, _, _)
BigSubC(a, b, c) ==
    IF a = <<>> THEN <<>>
    ELSE LET y == IF b = <<>> THEN 0 ELSE Head(b)
             t == Head(a) - y - c
         IN  <<IF t < 0 THEN t + Base ELSE t>>
             \o BigSubC(Tail(a), IF b = <<>> THEN <<>> ELSE Tail(b),
                        IF t < 0 THEN 1 ELSE 0)

\* a - b for a >= b
BigSub(a, b) == BigTrim(BigSubC(a, b, 0))

RECURSIVE BigMulLimb(_, _, _)
BigMulLimb(a, k, c) ==
    IF a = <<>> THEN (IF c = 0 THEN <<>> ELSE <<c>>)
    ELSE LET t == Head(a) * k + c
         IN  <<t % Base>> \o BigMulLimb(Tail(a), k, t \div Base)

RECURSIVE BigMul(_, _)
BigMul(a, b) ==
    IF a = <<>> \/ b = <<>> THEN <<>>
    ELSE BigTrim(BigAdd(BigMulLimb(a, Head(b), 0),
                        IF Tail(b) = <<>> THEN <<>>
                        ELSE <<0>> \o BigMul(a, Tail(b))))

RECURSIVE BigCmpFrom(_, _, _)
BigCmpFrom(a, b, i) ==
    IF i = 0 THEN 0
    ELSE IF a[i] < b[i] THEN -1
    ELSE IF a[i] > b[i] THEN 1
    ELSE BigCmpFrom(a, b, i - 1)

\* -1, 0, 1 as a < b, a = b, a > b
BigCmp(a, b) ==
    IF Len(a) < Len(b) THEN -1
    ELSE IF Len(a) > Len(b) THEN 1
    ELSE BigCmpFrom(a, b, Len(a))

\* the largest q in lo..hi with q * b <= a (b > 0, lo * b <= a)
RECURSIVE BigQuotLimb(_, _, _, _)
BigQuotLimb(a, b, lo, hi) ==
    IF lo = hi THEN lo
    ELSE LET mid == (lo + hi + 1) \div 2
         IN  IF BigCmp(BigMulLimb(b, mid, 0), a) <= 0
             THEN BigQuotLimb(a, b, mid, hi)
             ELSE BigQuotLimb(a, b, lo, mid - 1)

\* schoolbook long division from the most significant limb: <<quotient, remainder>>
RECURSIVE BigDivMod(_, _)
BigDivMod(a, b) ==
    IF a = <<>> THEN <<(<<>>), (<<>>)>>
    ELSE LET up  == BigDivMod(Tail(a), b)
             cur == BigTrim(<<Head(a)>> \o up[2])
             q   == BigQuotLimb(cur, b, 0, Base - 1)
         IN  <<BigTrim(<<q>> \o up[1]), BigSub(cur, BigTrim(BigMulLimb(b, q, 0)))>>

\* ------------------------------------------------------------------------
\* Python values of the engine: a float (an exact rational s * n / d with
\* s in {1, -1}, d > 0, zero carried with s = 1) or None.
\* ------------------------------------------------------------------------
Float(s, n, d) == [k |-> "float", s |-> IF n = <<>> THEN 1 ELSE s, n |-> n, d |-> d]

None == [k |-> "None", s |-> 1, n |-> <<>>, d |-> <<1>>]

\* a local that was never assigned, an output that was never produced
Unset == [k |-> "unset", s |-> 1, n |-> <<>>, d |-> <<1>>]

IsFloat(x) == x.k = "float"

\* the float of an integer literal of the source
Lit(i) == Float(IF i < 0 THEN -1 ELSE 1, BigOf(IF i < 0 THEN -i ELSE i), <<1>>)

\* the float of a decimal literal m / 10^e of the source (21.5 is Dec(215, 1))
RECURSIVE Pow10(_)
Pow10(e) == IF e = 0 THEN 1 ELSE 10 * Pow10(e - 1)

DecLit(m, e) == Float(IF m < 0 THEN -1 ELSE 1, BigOf(IF m < 0 THEN -m ELSE m), BigOf(Pow10(e)))

IsZero(x) == x.n = <<>>

FNeg(x) == Float(-x.s, x.n, x.d)

FMul(x, y) == Float(x.s * y.s, BigMul(x.n, y.n), BigMul(x.d, y.d))

\* x / y for y # 0 (Python raises ZeroDivisionError for y = 0: the callers test it)
FDiv(x, y) == Float(x.s * y.s, BigMul(x.n, y.d), BigMul(x.d, y.n))

FAdd(x, y) ==
    LET a == BigMul(x.n, y.d)
        b == BigMul(y.n, x.d)
        d == BigMul(x.d, y.d)
    IN  IF x.s = y.s THEN Float(x.s, BigAdd(a, b), d)
        ELSE IF BigCmp(a, b) >= 0 THEN Float(x.s, BigSub(a, b), d)
        ELSE Float(y.s, BigSub(b, a), d)

FSub(x, y) == FAdd(x, FNeg(y))

\* the sign of x - y: -1, 0, 1
FCmp(x, y) ==
    LET z == FSub(x, y) IN IF IsZero(z) THEN 0 ELSE z.s

FLt(x, y) == FCmp(x, y) < 0

FGt(x, y) == FCmp(x, y) > 0

\* Python's == on two floats (the same number, whatever the fraction's terms)
FEq(x, y) == FCmp(x, y) = 0

\* ------------------------------------------------------------------------
\* The engine (pes_utils.py; app.py lines 81-121 carry the same functions).
\* A row maps the field names to floats or None.
\* ------------------------------------------------------------------------
SixFields == {"TirePressure_Front", "TirePressure_Rear", "TireSize_Front",
              "TireSize_Rear", "DriverWeight_kg", "CoolantTemperature_C"}

\* compute_pes with the two tire sizes summed but not averaged
compute_pes_SumOfSizes(row) ==
    IF \E f \in SixFields : ~IsFloat(row[f]) THEN Lit(0)
    ELSE LET sum_tire_size == FAdd(row["TireSize_Front"], row["TireSize_Rear"])
             avg_pressure  == FDiv(FAdd(row["TirePressure_Front"], row["TirePressure_Rear"]), Lit(2))
             product       == FMul(FMul(row["CoolantTemperature_C"], row["DriverWeight_kg"]),
                                   sum_tire_size)
         IN  IF IsZero(product) THEN Lit(0)
             ELSE FMul(FDiv(Lit(1), product), FAdd(Lit(1), FDiv(avg_pressure, Lit(30))))

\* compute_pes with the pressure term subtracted
compute_pes_MinusPressure(row) ==
    IF \E f \in SixFields : ~IsFloat(row[f]) THEN Lit(0)
    ELSE LET avg_tire_size == FDiv(FAdd(row["TireSize_Front"], row["TireSize_Rear"]), Lit(2))
             avg_pressure  == FDiv(FAdd(row["TirePressure_Front"], row["TirePressure_Rear"]), Lit(2))
             product       == FMul(FMul(row["CoolantTemperature_C"], row["DriverWeight_kg"]),
                                   avg_tire_size)
         IN  IF IsZero(product) THEN Lit(0)
             ELSE FMul(FDiv(Lit(1), product), FSub(Lit(1), FDiv(avg_pressure, Lit(30))))

\* try: ... except: return 0.  A None operand raises TypeError in the sums or
\* the product, a zero product raises ZeroDivisionError in 1 / (...); the bare
\* except turns both into the int 0.
compute_pes(row) ==
    IF \E f \in SixFields : ~IsFloat(row[f]) THEN Lit(0)
    ELSE LET avg_tire_size == FDiv(FAdd(row["TireSize_Front"], row["TireSize_Rear"]), Lit(2))
             avg_pressure  == FDiv(FAdd(row["TirePressure_Front"], row["TirePressure_Rear"]), Lit(2))
             product       == FMul(FMul(row["CoolantTemperature_C"], row["DriverWeight_kg"]),
                                   avg_tire_size)
         IN  IF IsZero(product) THEN Lit(0)
             ELSE FMul(FDiv(Lit(1), product), FAdd(Lit(1), FDiv(avg_pressure, Lit(30))))

\* estimate_lap_time clamped at 0
estimate_lap_time_Clamped(p) ==
    IF FGt(FMul(p, Lit(100000)), Lit(180)) THEN Lit(0) ELSE FSub(Lit(180), FMul(p, Lit(100000)))

estimate_lap_time(p) == FSub(Lit(180), FMul(p, Lit(100000)))

\* calculate_distance_and_speed swallowing the division by zero
calculate_distance_and_speed_Swallowed(lap_time_sec) ==
    IF IsZero(lap_time_sec)
    THEN [exc |-> "none", distance |-> DecLit(13626, 3), speed |-> Lit(0)]
    ELSE [exc |-> "none", distance |-> DecLit(13626, 3),
          speed |-> FDiv(DecLit(13626, 3), FDiv(lap_time_sec, Lit(3600)))]

\* <<distance_km, avg_speed_kph>>, or the exception the division raises
calculate_distance_and_speed(lap_time_sec) ==
    LET distance_km == DecLit(13626, 3)
        hours       == FDiv(lap_time_sec, Lit(3600))
    IN  IF IsZero(hours)
        THEN [exc |-> "ZeroDivisionError", distance |-> Unset, speed |-> Unset]
        ELSE [exc |-> "none", distance |-> distance_km, speed |-> FDiv(distance_km, hours)]

\* One advisory message: the parts the f-string puts together.
Message(emoji, label, verdict, values, advice, bounds, unit) ==
    [emoji |-> emoji, label |-> label, verdict |-> verdict, values |-> values,
     advice |-> advice, bounds |-> bounds, unit |-> unit]

\* format_range with the bounds excluded from the range
format_range_Exclusive(value, min_val, max_val, label, unit, emoji) ==
    IF ~FGt(value, min_val)
    THEN Message(emoji, label, "is too low", <<value>>, "Increase to", <<min_val, max_val>>, unit)
    ELSE IF ~FLt(value, max_val)
    THEN Message(emoji, label, "is too high", <<value>>, "Reduce to", <<min_val, max_val>>, unit)
    ELSE Message("check mark", label, "is optimal at", <<value>>, "within", <<min_val, max_val>>, unit)

format_range(value, min_val, max_val, label, unit, emoji) ==
    IF FLt(value, min_val)
    THEN Message(emoji, label, "is too low", <<value>>, "Increase to", <<min_val, max_val>>, unit)
    ELSE IF FGt(value, max_val)
    THEN Message(emoji, label, "is too high", <<value>>, "Reduce to", <<min_val, max_val>>, unit)
    ELSE Message("check mark", label, "is optimal at", <<value>>, "within", <<min_val, max_val>>, unit)

\* Python's x != 305: None differs from every number
PyNe(x, y) == IF IsFloat(x) THEN ~FEq(x, y) ELSE TRUE

\* the tire size test with "and" for "or"
tire_size_message_And(front, rear) ==
    IF PyNe(front, Lit(305)) /\ PyNe(rear, Lit(305))
    THEN Message("wheel", "Tire size", "Use 305 mm for both front and rear, currently",
                 <<front, rear>>, "for optimal PES", <<Lit(305)>>, "mm")
    ELSE Message("check mark", "Tire size", "is optimal at", <<>>, "front and rear",
                 <<Lit(305)>>, "mm")

tire_size_message(front, rear) ==
    IF PyNe(front, Lit(305)) \/ PyNe(rear, Lit(305))
    THEN Message("wheel", "Tire size", "Use 305 mm for both front and rear, currently",
                 <<front, rear>>, "for optimal PES", <<Lit(305)>>, "mm")
    ELSE Message("check mark", "Tire size", "is optimal at", <<>>, "front and rear",
                 <<Lit(305)>>, "mm")

\* suggest_adjustments saying nothing about tire sizes that are optimal
suggest_adjustments_SilentWhenOptimal(row) ==
    IF \/ ~IsFloat(row["CoolantTemperature_C"])
       \/ ~IsFloat(row["DriverWeight_kg"])
       \/ ~IsFloat(row["TirePressure_Front"])
       \/ ~IsFloat(row["TirePressure_Rear"])
    THEN [exc |-> "TypeError", val |-> <<>>]
    ELSE LET avg_pressure == FDiv(FAdd(row["TirePressure_Front"], row["TirePressure_Rear"]), Lit(2))
         IN  [exc |-> "none",
              val |-> << format_range(row["CoolantTemperature_C"], Lit(85), Lit(95),
                                      "Coolant Temperature", "C", "thermometer"),
                         format_range(row["DriverWeight_kg"], Lit(68), Lit(72),
                                      "Driver Weight", "kg", "scales") >>
                      \o (IF PyNe(row["TireSize_Front"], Lit(305)) \/ PyNe(row["TireSize_Rear"], Lit(305))
                          THEN <<tire_size_message(row["TireSize_Front"], row["TireSize_Rear"])>>
                          ELSE <<>>)
                      \o << format_range(avg_pressure, DecLit(215, 1), DecLit(225, 1),
                                         "Average Tire Pressure", "PSI", "wrench") >>]

\* [exc, val]: the list of suggestions, or the TypeError that None < 85 or
\* None + x raises (nothing in suggest_adjustments catches it)
suggest_adjustments(row) ==
    IF \/ ~IsFloat(row["CoolantTemperature_C"])
       \/ ~IsFloat(row["DriverWeight_kg"])
       \/ ~IsFloat(row["TirePressure_Front"])
       \/ ~IsFloat(row["TirePressure_Rear"])
    THEN [exc |-> "TypeError", val |-> <<>>]
    ELSE LET avg_pressure == FDiv(FAdd(row["TirePressure_Front"], row["TirePressure_Rear"]), Lit(2))
         IN  [exc |-> "none",
              val |-> << format_range(row["CoolantTemperature_C"], Lit(85), Lit(95),
                                      "Coolant Temperature", "C", "thermometer"),
                         format_range(row["DriverWeight_kg"], Lit(68), Lit(72),
                                      "Driver Weight", "kg", "scales"),
                         tire_size_message(row["TireSize_Front"], row["TireSize_Rear"]),
                         format_range(avg_pressure, DecLit(215, 1), DecLit(225, 1),
                                      "Average Tire Pressure", "PSI", "wrench") >>]

\* ------------------------------------------------------------------------
\* The text format of a historical row (app.py): a text is a sequence of
\* tokens, the literal pieces of the f-string as one token each and every
\* formatted value as its characters.
\* ------------------------------------------------------------------------
\* A number of the dataset or of a form widget: the decimal s * m / 10^e
\* (m not a multiple of 10 unless e = 0), or NaN (an empty CSV cell).
Dec(s, m, e) == [k |-> "num", s |-> s, m |-> m, e |-> e]

NaN == [k |-> "nan", s |-> 1, m |-> 0, e |-> 0]

\* the float a decimal of the dataset is read as
ToFloat(x) == Float(x.s, BigOf(x.m), BigOf(Pow10(x.e)))

DigitChar(i) == <<"0", "1", "2", "3", "4", "5", "6", "7", "8", "9">>[i + 1]

Digits == {DigitChar(i) : i \in 0..9}

DigitVal(c) == CHOOSE i \in 0..9 : DigitChar(i) = c

RECURSIVE DigitsOf(_)
DigitsOf(m) == IF m < 10 THEN <<DigitChar(m)>> ELSE DigitsOf(m \div 10) \o <<DigitChar(m % 10)>>

Zeros(n) == [i \in 1..n |-> "0"]

\* str(float), the shortest repr: fixed notation while the decimal exponent
\* is in -4..15, d[.ddd]e-XX below it ("nan" for NaN).  Values of 1e16 and
\* above (d[.ddd]e+XX) are outside the model's integers.
FloatStr(x) ==
    IF x.k = "nan" THEN <<"n", "a", "n">>
    ELSE LET D     == DigitsOf(x.m)
             sign  == IF x.s < 0 /\ x.m # 0 THEN <<"-">> ELSE <<>>
             exp10 == Len(D) - x.e - 1
         IN  IF x.m = 0 THEN sign \o <<"0", ".", "0">>
             ELSE IF exp10 < -4
             THEN sign \o <<Head(D)>>
                       \o (IF Len(D) > 1 THEN <<".">> \o Tail(D) ELSE <<>>)
                       \o <<"e", "-">>
                       \o (IF -exp10 < 10 THEN <<"0">> ELSE <<>>) \o DigitsOf(-exp10)
             ELSE IF x.e = 0 THEN sign \o D \o <<".", "0">>
             ELSE IF Len(D) > x.e
             THEN sign \o SubSeq(D, 1, Len(D) - x.e) \o <<".">>
                       \o SubSeq(D, Len(D) - x.e + 1, Len(D))
             ELSE sign \o <<"0", ".">> \o Zeros(x.e - Len(D)) \o D

row_to_text(r) ==
    <<"Tire Pressure Front: ">> \o FloatStr(r["TirePressure_Front"]) \o <<" bar, ">>
    \o <<"Tire Pressure Rear: ">> \o FloatStr(r["TirePressure_Rear"]) \o <<" bar, ">>
    \o <<"Tire Size Front: ">> \o FloatStr(r["TireSize_Front"]) \o <<", ">>
    \o <<"Tire Size Rear: ">> \o FloatStr(r["TireSize_Rear"]) \o <<", ">>
    \o <<"Driver Weight: ">> \o FloatStr(r["DriverWeight_kg"]) \o <<" kg, ">>
    \o <<"Coolant Temperature: ">> \o FloatStr(r["CoolantTemperature_C"]) \o <<" C, ">>
    \o <<"Coolant Type: ">> \o <<r["CoolantType"]>> \o <<", ">>
    \o <<"PES: ">> \o FloatStr(r["PES"])

\* the length of the longest prefix of seq made of members of S
RECURSIVE PrefixLen(_, _)
PrefixLen(seq, S) ==
    IF seq = <<>> \/ Head(seq) \notin S THEN 0 ELSE 1 + PrefixLen(Tail(seq), S)

Drop(seq, n) == SubSeq(seq, n + 1, Len(seq))

RECURSIVE DigitsToInt(_)
DigitsToInt(ds) ==
    IF ds = <<>> THEN 0 ELSE 10 * DigitsToInt(SubSeq(ds, 1, Len(ds) - 1)) + DigitVal(ds[Len(ds)])

\* float(str): [sign] digits [. digits] [e [sign] digits] with at least one
\* mantissa digit; anything else raises ValueError, carried as a value of
\* kind "ValueError".  One operator per part of the literal, left to right.
ValueError == [k |-> "ValueError", s |-> 1, n |-> <<>>, d |-> <<1>>]

\* sgn * mant * 10^exponent
FloatValue(sgn, mant, exponent) ==
    IF exponent >= 0
    THEN Float(sgn, BigMul(BigOf(DigitsToInt(mant)), BigOf(Pow10(exponent))), <<1>>)
    ELSE Float(sgn, BigOf(DigitsToInt(mant)), BigOf(Pow10(-exponent)))

FloatExpDigits(sgn, mant, nf, esgn, ds) ==
    IF ds = <<>> \/ PrefixLen(ds, Digits) # Len(ds) THEN ValueError
    ELSE FloatValue(sgn, mant, esgn * DigitsToInt(ds) - nf)

FloatExponent(sgn, mant, nf, str) ==
    IF str = <<>> THEN FloatValue(sgn, mant, -nf)
    ELSE IF Head(str) \notin {"e", "E"} THEN ValueError
    ELSE IF Tail(str) # <<>> /\ Head(Tail(str)) \in {"+", "-"}
    THEN FloatExpDigits(sgn, mant, nf, IF Head(Tail(str)) = "-" THEN -1 ELSE 1, Tail(Tail(str)))
    ELSE FloatExpDigits(sgn, mant, nf, 1, Tail(str))

FloatFraction(sgn, ipart, fpart, str) ==
    IF ipart = <<>> /\ fpart = <<>> THEN ValueError
    ELSE FloatExponent(sgn, ipart \o fpart, Len(fpart), str)

FloatPoint(sgn, ipart, str) ==
    IF str # <<>> /\ Head(str) = "."
    THEN FloatFraction(sgn, ipart, SubSeq(Tail(str), 1, PrefixLen(Tail(str), Digits)),
                       Drop(Tail(str), PrefixLen(Tail(str), Digits)))
    ELSE FloatFraction(sgn, ipart, <<>>, str)

FloatUnsigned(sgn, str) ==
    FloatPoint(sgn, SubSeq(str, 1, PrefixLen(str, Digits)), Drop(str, PrefixLen(str, Digits)))

PyFloat(str) ==
    IF str # <<>> /\ Head(str) \in {"+", "-"}
    THEN FloatUnsigned(IF Head(str) = "-" THEN -1 ELSE 1, Tail(str))
    ELSE FloatUnsigned(1, str)

\* re.search(label + "([chars]+)", text): the leftmost place where the label
\* is followed by a character of the class, and the longest run from there;
\* float(match.group(1)) if match else None
extract(text, label, class) ==
    LET at == {i \in 1..(Len(text) - 1) : text[i] = label /\ text[i + 1] \in class}
    IN  IF at = {} THEN None
        ELSE LET i   == CHOOSE j \in at : \A h \in at : j <= h
                 run == SubSeq(text, i + 1, i + PrefixLen(Drop(text, i), class))
             IN  PyFloat(run)

DigitsDot == Digits \cup {"."}

PesClass == Digits \cup {".", "e", "E", "+", "-"}

parse_row(text) ==
    [TirePressure_Front   |-> extract(text, "Tire Pressure Front: ", DigitsDot),
     TirePressure_Rear    |-> extract(text, "Tire Pressure Rear: ", DigitsDot),
     TireSize_Front       |-> extract(text, "Tire Size Front: ", DigitsDot),
     TireSize_Rear        |-> extract(text, "Tire Size Rear: ", DigitsDot),
     DriverWeight_kg      |-> extract(text, "Driver Weight: ", DigitsDot),
     CoolantTemperature_C |-> extract(text, "Coolant Temperature: ", DigitsDot),
     PES                  |-> extract(text, "PES: ", PesClass)]

\* ------------------------------------------------------------------------
\* The record under analysis: a row of the dataset / the six form widgets /
\* the JSON body of POST /analyze.
\* ------------------------------------------------------------------------
Whole(i) == Dec(IF i < 0 THEN -1 ELSE 1, IF i < 0 THEN -i ELSE i, 0)

Record(pf, pr, sf, sr, w, c, p) ==
    [TirePressure_Front |-> pf, TirePressure_Rear |-> pr, TireSize_Front |-> sf,
     TireSize_Rear |-> sr, DriverWeight_kg |-> w, CoolantTemperature_C |-> c,
     CoolantType |-> "Water", PES |-> p]

\* the all-optimal record of the form's defaults, and a record whose score is
\* 0.0018 and whose estimated lap time is 0 (in IEEE doubles too)
Optimal == Record(Whole(22), Whole(22), Whole(305), Whole(305), Whole(70), Whole(90), Dec(1, 902, 9))

Small == Record(Whole(36), Dec(1, 255, 1), Whole(18), Dec(1, 45, 1), Whole(10), Whole(10), Dec(1, 18, 4))

\* values on, next to and far from the thresholds, zero denominators, signs
FieldValues ==
    [TirePressure_Front   |-> {Whole(20), Whole(21), Whole(23), Whole(24)},
     TirePressure_Rear    |-> {Whole(22), Whole(24)},
     TireSize_Front       |-> {Whole(-305), Whole(0), Whole(10), Whole(305)},
     TireSize_Rear        |-> {Whole(0), Whole(10), Whole(305)},
     DriverWeight_kg      |-> {Whole(0), Whole(10), Whole(68), Whole(72), Whole(80)},
     CoolantTemperature_C |-> {Whole(-90), Whole(0), Whole(10), Whole(85), Whole(95), Whole(100)}]

\* r with one field set to one of its values
OneChanged(r) == UNION {{[r EXCEPT ![f] = v] : v \in FieldValues[f]} : f \in SixFields}

EngineRecords ==
    {Optimal, Small} \cup OneChanged(Small) \cup UNION {OneChanged(r) : r \in OneChanged(Optimal)}

\* rows of the dataset that strain the text format: one field replaced by a
\* fraction, a value below 1e-4, a negative value, an empty cell
EdgeValues == {Dec(1, 225, 1), Dec(1, 1, 5), Dec(-1, 5, 0), NaN}

DatasetRecords ==
    {[Optimal EXCEPT ![f] = v] : f \in SixFields \cup {"PES"}, v \in EdgeValues}

Records == EngineRecords \cup DatasetRecords

Numeric(r) == \A f \in SixFields : r[f].k = "num"

\* ------------------------------------------------------------------------
\* State.  Every request starts from scratch: the outputs below are those of
\* the handler that ran last.
\* ------------------------------------------------------------------------
VARIABLES
    rec,          \* the record under analysis (dataset row, form widgets, JSON body)
    caller,       \* the handler that ran last: "idle", "manual", "rag", "analyze"
    error,        \* the exception that ended it, "none" if it returned
    context,      \* rag: context_passages[0]
    row,          \* the dict handed to the engine
    pes,          \* compute_pes(row)
    lap_time,     \* estimate_lap_time(pes)
    distance,     \* calculate_distance_and_speed(lap_time)[0]
    speed,        \* calculate_distance_and_speed(lap_time)[1]
    suggestions,  \* suggest_adjustments(row)
    delta,        \* manual: lap_time - estimate_lap_time(0.001)
    estimated_pes,\* analyze: PESOutput.estimated_pes
    shown,        \* the results rendered to the user / returned to the client
    ranges        \* the last answer of GET /optimal-ranges

vars == <<rec, caller, error, context, row, pes, lap_time, distance, speed,
          suggestions, delta, estimated_pes, shown, ranges>>

UnsetRow == [f \in SixFields |-> Unset]

UnsetRanges ==
    [CoolantTemperature_C |-> [min |-> Unset, max |-> Unset],
     DriverWeight_kg      |-> [min |-> Unset, max |-> Unset],
     TireSize_Front       |-> [recommended |-> Unset],
     TireSize_Rear        |-> [recommended |-> Unset],
     TirePressure_Average |-> [min |-> Unset, max |-> Unset]]

Fresh ==
    /\ caller = "idle"
    /\ error = "none"
    /\ context = <<>>
    /\ row = UnsetRow
    /\ pes = Unset
    /\ lap_time = Unset
    /\ distance = Unset
    /\ speed = Unset
    /\ suggestions = <<>>
    /\ delta = Unset
    /\ estimated_pes = Unset
    /\ shown = {}
    /\ ranges = UnsetRanges

Init == rec \in Records /\ Fresh

\* What a handler leaves behind: its locals and what it rendered or returned.
\* A local the handler never reached is passed as Unset (<<>> for a sequence).
Outcome(who, exc, text, r, p, lt, dist, spd, sugg, dl, est, rendered) ==
    /\ caller' = who
    /\ error' = exc
    /\ context' = text
    /\ row' = r
    /\ pes' = p
    /\ lap_time' = lt
    /\ distance' = dist
    /\ speed' = spd
    /\ suggestions' = sugg
    /\ delta' = dl
    /\ estimated_pes' = est
    /\ shown' = rendered
    /\ UNCHANGED <<rec, ranges>>

\* ------------------------------------------------------------------------
\* app.py, "if submitted:" (lines 186-232), statement by statement.
\* st.number_input yields floats.
\* ------------------------------------------------------------------------
\* lines 198-232: suggest_adjustments(row), the st.* output, the lap time delta
ManualRender(r, p, lt, ds, sg) ==
    Outcome("manual", sg.exc, <<>>, r, p, lt, ds.distance, ds.speed, sg.val,
            FSub(lt, estimate_lap_time(DecLit(1, 3))), Unset,
            {"pes", "lap_time", "distance", "speed", "suggestions", "radar", "delta"})

\* line 197: distance, speed = calculate_distance_and_speed(lap_time)
ManualSpeed(r, p, lt, ds) ==
    IF ds.exc # "none"
    THEN Outcome("manual", ds.exc, <<>>, r, p, lt, Unset, Unset, <<>>, Unset, Unset, {})
    ELSE ManualRender(r, p, lt, ds, suggest_adjustments(r))

\* line 196: lap_time = estimate_lap_time(pes)
ManualLapTime(r, p, lt) == ManualSpeed(r, p, lt, calculate_distance_and_speed(lt))

\* line 195: pes = compute_pes(row)
ManualScore(r, p) == ManualLapTime(r, p, estimate_lap_time(p))

\* lines 187-194: row = {...}
ManualSubmit ==
    /\ Numeric(rec)
    /\ ManualScore([f \in SixFields |-> ToFloat(rec[f])],
                   compute_pes([f \in SixFields |-> ToFloat(rec[f])]))

\* ------------------------------------------------------------------------
\* app.py, "Analyze from history" (lines 148-167) with rag_query_pipeline
\* (lines 123-139), statement by statement.  The collection holds row_to_text
\* of the dataset's rows; the similarity search answers n of them, nearest
\* first (none when the collection is empty).
\* ------------------------------------------------------------------------
MaxHits == 1

search_similar_texts(r, n) == [i \in 1..n |-> row_to_text(r)]

\* lines 131-139 and 150-167: the result dict, rendered
RagRender(text, parsed, p, sg, lt, ds) ==
    IF ds.exc # "none"
    THEN Outcome("rag", ds.exc, text, parsed, p, lt, Unset, Unset, sg.val, Unset, Unset, {})
    ELSE Outcome("rag", "none", text, parsed, p, lt, ds.distance, ds.speed, sg.val, Unset, Unset,
                 {"context", "pes", "lap_time", "distance", "speed", "suggestions"})

\* line 129: distance, speed = calculate_distance_and_speed(lap_time)
RagSpeed(text, parsed, p, sg, lt) ==
    RagRender(text, parsed, p, sg, lt, calculate_distance_and_speed(lt))

\* lines 127-128: suggestions = suggest_adjustments(parsed); lap_time = ...
RagSuggest(text, parsed, p, sg) ==
    IF sg.exc # "none"
    THEN Outcome("rag", sg.exc, text, parsed, p, Unset, Unset, Unset, <<>>, Unset, Unset, {})
    ELSE RagSpeed(text, parsed, p, sg, estimate_lap_time(p))

\* line 126: pes = compute_pes(parsed)
RagScore(text, parsed) ==
    IF \E f \in DOMAIN parsed : parsed[f].k = "ValueError"
    THEN Outcome("rag", "ValueError", text, UnsetRow, Unset, Unset, Unset, Unset, <<>>,
                 Unset, Unset, {})
    ELSE RagSuggest(text, parsed, compute_pes(parsed), suggest_adjustments(parsed))

\* line 125: parsed = parse_row(context_passages[0])
RagParse(context_passages) ==
    IF context_passages = <<>>
    THEN Outcome("rag", "IndexError", <<>>, UnsetRow, Unset, Unset, Unset, Unset, <<>>,
                 Unset, Unset, {})
    ELSE RagScore(context_passages[1], parse_row(context_passages[1]))

\* line 124: context_passages = search_similar_texts(query)
RagQuery(n) == RagParse(search_similar_texts(rec, n))

\* ------------------------------------------------------------------------
\* api.py: POST /analyze and GET /optimal-ranges.
\* ------------------------------------------------------------------------
\* round(x, 6): to the nearest multiple of 10^-6, a tie to the even one
RoundHalfEven(s, qr, d) ==
    IF \/ BigCmp(BigMulLimb(qr[2], 2, 0), d) > 0
       \/ (BigCmp(BigMulLimb(qr[2], 2, 0), d) = 0 /\ qr[1] # <<>> /\ Head(qr[1]) % 2 = 1)
    THEN Float(s, BigAdd(qr[1], <<1>>), BigOf(Pow10(6)))
    ELSE Float(s, qr[1], BigOf(Pow10(6)))

round6(x) == RoundHalfEven(x.s, BigDivMod(BigMul(x.n, BigOf(Pow10(6))), x.d), x.d)

\* lines 30-36: pes, suggestions, PESOutput(estimated_pes=round(pes, 6), ...)
AnalyzeRespond(r, p, sg) ==
    Outcome("analyze", sg.exc, <<>>, r, p, Unset, Unset, Unset, sg.val, Unset, round6(p),
            {"estimated_pes", "suggestions"})

AnalyzeRow(r) == AnalyzeRespond(r, compute_pes(r), suggest_adjustments(r))

\* lines 27-28: row = data.dict(); row["PES"] = 0.  pydantic has validated the
\* six fields as floats.
AnalyzeManualInput ==
    /\ Numeric(rec)
    /\ AnalyzeRow([f \in SixFields \cup {"PES"} |->
                      IF f = "PES" THEN Lit(0) ELSE ToFloat(rec[f])])

\* the table with a driver weight range the engine does not apply
get_optimal_ranges_Stale ==
    [CoolantTemperature_C |-> [min |-> Lit(85), max |-> Lit(95)],
     DriverWeight_kg      |-> [min |-> Lit(60), max |-> Lit(80)],
     TireSize_Front       |-> [recommended |-> Lit(305)],
     TireSize_Rear        |-> [recommended |-> Lit(305)],
     TirePressure_Average |-> [min |-> DecLit(215, 1), max |-> DecLit(225, 1)]]

get_optimal_ranges ==
    [CoolantTemperature_C |-> [min |-> Lit(85), max |-> Lit(95)],
     DriverWeight_kg      |-> [min |-> Lit(68), max |-> Lit(72)],
     TireSize_Front       |-> [recommended |-> Lit(305)],
     TireSize_Rear        |-> [recommended |-> Lit(305)],
     TirePressure_Average |-> [min |-> DecLit(215, 1), max |-> DecLit(225, 1)]]

GetOptimalRanges ==
    /\ ranges' = get_optimal_ranges
    /\ UNCHANGED <<rec, caller, error, context, row, pes, lap_time, distance, speed,
                   suggestions, delta, estimated_pes, shown>>

Next ==
    \/ ManualSubmit
    \/ \E n \in 0..MaxHits : RagQuery(n)
    \/ AnalyzeManualInput
    \/ GetOptimalRanges

Spec == Init /\ [][Next]_vars

\* ------------------------------------------------------------------------
\* A second specification: the manual form analysed again and again, the
\* user changing one widget at a time (app.py lines 173-184: the widgets of
\* st.form keep their values from one run of the script to the next).
\* ------------------------------------------------------------------------
SweepValues ==
    [TirePressure_Front   |-> {Whole(21), Whole(22)},
     TirePressure_Rear    |-> {Whole(22), Whole(23)},
     TireSize_Front       |-> {Whole(300), Whole(305)},
     TireSize_Rear        |-> {Whole(305)},
     DriverWeight_kg      |-> {Whole(68), Whole(70)},
     CoolantTemperature_C |-> {Whole(85), Whole(90), Whole(95)}]

EditField(f, v) ==
    /\ rec' = [rec EXCEPT ![f] = v]
    /\ UNCHANGED <<caller, error, context, row, pes, lap_time, distance, speed,
                   suggestions, delta, estimated_pes, shown, ranges>>

InitSweep == rec = Optimal /\ Fresh

NextSweep ==
    \/ ManualSubmit
    \/ \E f \in SixFields : \E v \in SweepValues[f] : EditField(f, v)

SpecSweep == InitSweep /\ [][NextSweep]_vars

\* ------------------------------------------------------------------------
\* Properties
\* ------------------------------------------------------------------------
RowNumeric == \A f \in SixFields : IsFloat(row[f])

Half(x) == FMul(x, DecLit(5, 1))

AvgSize == Half(FAdd(row["TireSize_Front"], row["TireSize_Rear"]))

AvgPressure == Half(FAdd(row["TirePressure_Front"], row["TirePressure_Rear"]))

\* a handler has called compute_pes(row)
Scored == caller # "idle" /\ row # UnsetRow

\* 30 * pes * (coolant * weight * avg_tire_size) = 30 + avg_pressure, which is
\* pes = (1 / (coolant * weight * avg_tire_size)) * (1 + avg_pressure / 30)
IsTheScore ==
    FEq(FMul(Lit(30),
             FMul(pes, FMul(FMul(row["CoolantTemperature_C"], row["DriverWeight_kg"]), AvgSize))),
        FAdd(Lit(30), AvgPressure))

C2_NoUsableContext ==
    (caller = "rag" /\ (context = <<>> \/ \E f \in SixFields : row[f].k = "None")) =>
        /\ pes = Unset
        /\ suggestions = <<>>
        /\ shown = {}

\* C3: calculate_distance_and_speed yields the distance 13.626 and the speed
\* 13.626 / (lap_time / 3600) for a lap time other than 0, and for a lap time of
\* 0 the ZeroDivisionError ends the manual handler and rag_query_pipeline:
\* no distance, no speed, nothing rendered.
C3_SpeedOrError ==
    (caller \in {"manual", "rag"} /\ IsFloat(lap_time)) =>
        IF IsZero(lap_time)
        THEN error = "ZeroDivisionError" /\ distance = Unset /\ speed = Unset /\ shown = {}
        ELSE /\ error = "none"
             /\ IsFloat(distance) /\ FEq(distance, DecLit(13626, 3))
             /\ IsFloat(speed) /\ FEq(FMul(speed, lap_time), FMul(DecLit(13626, 3), Lit(3600)))
             /\ {"distance", "speed"} \subseteq shown

C3_Witness ==
    /\ caller = "manual"
    /\ IsFloat(lap_time) /\ IsZero(lap_time)
    /\ error = "ZeroDivisionError"

\* suggest_adjustments(row) was called on a row of six numbers (the manual
\* handler calls it after calculate_distance_and_speed, the others before)
Advised == Scored /\ RowNumeric /\ ~(caller = "manual" /\ error = "ZeroDivisionError")

Labels(msgs) == [i \in 1..Len(msgs) |-> msgs[i].label]

\* C4: on every record of six numbers suggest_adjustments returns exactly four
\* messages, in the order coolant temperature, driver weight, tire size,
\* average tire pressure, whatever the values.
C4_FourInOrder ==
    Advised =>
        Labels(suggestions) =
            <<"Coolant Temperature", "Driver Weight", "Tire size", "Average Tire Pressure">>

C4_Witness ==
    /\ Advised
    /\ Len(suggestions) = 4
    /\ suggestions[1].verdict = "is too high"
    /\ suggestions[3].verdict # "is optimal at"

\* the message m classifies value against [lo, hi] and names all three
Classifies(m, value, lo, hi) ==
    /\ m.verdict \in {"is too low", "is too high", "is optimal at"}
    /\ (m.verdict = "is too low") <=> FLt(value, lo)
    /\ (m.verdict = "is too high") <=> FGt(value, hi)
    /\ (m.verdict = "is optimal at") <=> (~FLt(value, lo) /\ ~FGt(value, hi))
    /\ Len(m.values) = 1 /\ FEq(m.values[1], value)
    /\ Len(m.bounds) = 2 /\ FEq(m.bounds[1], lo) /\ FEq(m.bounds[2], hi)

\* C5: the checks of coolant temperature against [85, 95], of driver weight
\* against [68, 72] and of the average tire pressure against [21.5, 22.5] say
\* "too low" iff value < min, "too high" iff value > max and "optimal" iff
\* min <= value <= max, and every message names the value and both bounds.
C5_RangeChecks ==
    Advised =>
        /\ Len(suggestions) >= 4
        /\ Classifies(suggestions[1], row["CoolantTemperature_C"], Lit(85), Lit(95))
        /\ Classifies(suggestions[2], row["DriverWeight_kg"], Lit(68), Lit(72))
        /\ Classifies(suggestions[4], AvgPressure, DecLit(215, 1), DecLit(225, 1))

C5_Witness ==
    /\ Advised
    /\ FEq(row["CoolantTemperature_C"], Lit(95))
    /\ FEq(row["DriverWeight_kg"], Lit(68))
    /\ suggestions[1].verdict = "is optimal at"
    /\ suggestions[2].verdict = "is optimal at"

BothAre305 ==
    /\ IsFloat(row["TireSize_Front"]) /\ FEq(row["TireSize_Front"], Lit(305))
    /\ IsFloat(row["TireSize_Rear"]) /\ FEq(row["TireSize_Rear"], Lit(305))

\* C6: the third message is the "optimal" tire-size message iff front and rear
\* are both 305; otherwise it is one message naming the current front and
\* rear values.
C6_TireSizeMessage ==
    (Scored /\ Len(suggestions) >= 3) =>
        /\ (suggestions[3].verdict = "is optimal at") <=> BothAre305
        /\ ~BothAre305 => suggestions[3].values = <<row["TireSize_Front"], row["TireSize_Rear"]>>

C6_Witness ==
    /\ Scored /\ Len(suggestions) >= 3
    /\ IsFloat(row["TireSize_Front"]) /\ FEq(row["TireSize_Front"], Lit(305))
    /\ ~BothAre305
    /\ suggestions[3].verdict # "is optimal at"

Positive(r) == \A f \in SixFields : IsFloat(r[f]) /\ FGt(r[f], Lit(0))

\* rows r and q agree on the fields of S
SameOn(r, q, S) == \A f \in S : FEq(r[f], q[f])

SizeSum(r) == FAdd(r["TireSize_Front"], r["TireSize_Rear"])

PressureSum(r) == FAdd(r["TirePressure_Front"], r["TirePressure_Rear"])

\* C7: on records whose six fields are positive compute_pes is positive, and
\* from one analysis of the form to the next it falls when only the coolant
\* temperature rises, when only the driver weight rises, when only the average
\* tire size rises, and rises when only the average tire pressure rises.
C7_Monotone ==
    [][(caller = "manual" /\ caller' = "manual" /\ Positive(row) /\ Positive(row')) =>
        /\ FGt(pes, Lit(0)) /\ FGt(pes', Lit(0))
        /\ ( /\ SameOn(row, row', SixFields \ {"CoolantTemperature_C"})
             /\ FGt(row'["CoolantTemperature_C"], row["CoolantTemperature_C"]) )
           => FLt(pes', pes)
        /\ ( /\ SameOn(row, row', SixFields \ {"DriverWeight_kg"})
             /\ FGt(row'["DriverWeight_kg"], row["DriverWeight_kg"]) )
           => FLt(pes', pes)
        /\ ( /\ SameOn(row, row', SixFields \ {"TireSize_Front", "TireSize_Rear"})
             /\ FGt(SizeSum(row'), SizeSum(row)) )
           => FLt(pes', pes)
        /\ ( /\ SameOn(row, row', SixFields \ {"TirePressure_Front", "TirePressure_Rear"})
             /\ FGt(PressureSum(row'), PressureSum(row)) )
           => FGt(pes', pes)
      ]_vars

\* an analysed form with one widget raised since, about to be analysed again
C7_Witness ==
    /\ caller = "manual"
    /\ Positive(row)
    /\ FGt(pes, Lit(0))
    /\ FGt(ToFloat(rec["TirePressure_Rear"]), row["TirePressure_Rear"])
    /\ \A f \in SixFields \ {"TirePressure_Rear"} : FEq(ToFloat(rec[f]), row[f])

\* the record is in the data model's domain
InDomain(r) ==
    /\ Numeric(r)
    /\ r["CoolantTemperature_C"].m # 0
    /\ \A f \in SixFields \ {"CoolantTemperature_C"} : r[f].m # 0 /\ r[f].s = 1

\* C8: parse_row(row_to_text(record)) gives back the six fields of every
\* record of the data model's domain, none of them None.
C8_RoundTrip ==
    (caller = "rag" /\ context # <<>> /\ InDomain(rec)) =>
        \A f \in SixFields : IsFloat(row[f]) /\ FEq(row[f], ToFloat(rec[f]))

\* C9: estimate_lap_time(pes) is 180 - pes * 100000, unclamped (negative for a
\* score above 0.0018, above 180 for a negative score), and that very value
\* is what both pipelines hand to calculate_distance_and_speed.
C9_LapTime ==
    (caller \in {"manual", "rag"} /\ IsFloat(lap_time)) =>
        /\ FEq(FAdd(lap_time, FMul(pes, Lit(100000))), Lit(180))
        /\ FGt(pes, DecLit(18, 4)) => FLt(lap_time, Lit(0))
        /\ FLt(pes, Lit(0)) => FGt(lap_time, Lit(180))
        /\ IsFloat(speed) => FEq(FMul(speed, lap_time), FMul(DecLit(13626, 3), Lit(3600)))
        /\ ~IsZero(lap_time) => IsFloat(speed)

C9_Witness ==
    /\ caller = "rag"
    /\ IsFloat(lap_time) /\ FLt(lap_time, Lit(0))
    /\ IsFloat(speed) /\ FLt(speed, Lit(0))
    /\ "speed" \in shown

Within(x, range) == ~FLt(x, range.min) /\ ~FGt(x, range.max)

\* C10: a record gets four "optimal" messages from POST /analyze iff it lies
\* within the table of GET /optimal-ranges: coolant temperature and driver
\* weight within min..max, both tire sizes equal to the recommended values,
\* average tire pressure within min..max.
C10_TableAgrees ==
    (caller = "analyze" /\ ranges # UnsetRanges) =>
        ( (Len(suggestions) = 4 /\ \A i \in 1..4 : suggestions[i].verdict = "is optimal at")
          <=>
          ( /\ Within(row["CoolantTemperature_C"], ranges["CoolantTemperature_C"])
            /\ Within(row["DriverWeight_kg"], ranges["DriverWeight_kg"])
            /\ FEq(row["TireSize_Front"], ranges["TireSize_Front"].recommended)
            /\ FEq(row["TireSize_Rear"], ranges["TireSize_Rear"].recommended)
            /\ Within(AvgPressure, ranges["TirePressure_Average"]) ) )

C10_Witness ==
    /\ caller = "analyze"
    /\ ranges # UnsetRanges
    /\ FEq(row["CoolantTemperature_C"], Lit(85))
    /\ FEq(AvgPressure, DecLit(225, 1))
    /\ \A i \in 1..4 : suggestions[i].verdict = "is optimal at"

====
